---- MODULE Spec2Model ----
(***************************************************************************)
(* Offline EDF-VD simulator, src/FreeRTOS/EDF-VD/sim_offline_edfvd.c.      *)
(*                                                                         *)
(* vRunOfflineEDFVD is a linear pipeline; pc is its position:              *)
(*   "parse"  -> parseTaskFile                                             *)
(*   "notasks"-> the run returned because no task was parsed               *)
(*   "hyper"  -> computeHyperPeriodAndJobCounts                            *)
(*   "params" -> computeEDFVDParameters                                    *)
(*   "build"  -> buildJobsArray (and the entry of scheduleEDFVD)           *)
(*   "sched"  -> one iteration of the while loop of scheduleEDFVD          *)
(*   "write"  -> the loop has been left: writeScheduleToFile and           *)
(*               analyzeSchedule                                           *)
(*   "done"   -> the run returned before scheduling (no jobs)              *)
(*   "end"    -> the run returned after analyzeSchedule                    *)
(*                                                                         *)
(* Numbers.  The source computes in double.  Times (phase, period, wcet,   *)
(* deadline, arrival, now, remaining, slice bounds) are fixed-point        *)
(* integers counted in ticks, One ticks to the time unit; a tick is the    *)
(* resolution of the grid and the completion tolerance EPS of the source   *)
(* is one tick, so that a residue can be positive and still within the     *)
(* tolerance.  Quotients (utilizations, the scaling factor x, virtual      *)
(* deadlines) are exact rationals [n, d].  Rounding error of double        *)
(* arithmetic is not modelled.                                             *)
(***************************************************************************)
EXTENDS Integers, Sequences, FiniteSets, TLC

\* ------------------------------------------------------------------ bounds
One == 4            \* ticks per time unit
TraceLen == 3       \* the execution-times stream repeats with this length

\* ------------------------------------------------------- program constants
MAX_TASKS == 50
MAX_JOBS == 5000
MAX_SLICES == 10000
MAX_ACTIVE == 2000
EPS == 1            \* 1e-9, the completion tolerance: one tick

CRIT_LOW == 0
CRIT_HIGH == CRIT_LOW + 1

\* -------------------------------------------------------------- input sets
NumTasksSet == {0, 1, 2}
PhaseSet == {0, One}
PeriodSet == {2 * One, 3 * One}
WcetSet == {One, 2 * One}
DeadlineSet == {2 * One, 3 * One}
CritSet == {CRIT_LOW, CRIT_HIGH}
ExecSet == {One, One + 1, 2 * One}

\* ---------------------------------------------------------------- rationals
RECURSIVE GcdNat(_, _)
GcdNat(a, b) == IF b = 0 THEN a ELSE GcdNat(b, a % b)

Abs(a) == IF a < 0 THEN -a ELSE a

\* canonical form: positive denominator, lowest terms
RNorm(n, d) ==
    LET s == IF d < 0 THEN -1 ELSE 1
        g == GcdNat(Abs(n), Abs(d))
    IN  [n |-> (s * n) \div g, d |-> (s * d) \div g]

RInt(a) == [n |-> a, d |-> 1]
RAdd(p, q) == RNorm(p.n * q.d + q.n * p.d, p.d * q.d)
RSub(p, q) == RNorm(p.n * q.d - q.n * p.d, p.d * q.d)
RMul(p, q) == RNorm(p.n * q.n, p.d * q.d)
RDiv(p, q) == RNorm(p.n * q.d, p.d * q.n)
RLt(p, q) == p.n * q.d < q.n * p.d
REq(p, q) == p.n * q.d = q.n * p.d
RLeq(p, q) == p.n * q.d <= q.n * p.d

\* ---------------------------------------------------------------- gcd / lcm
RECURSIVE gcdLL(_, _)
gcdLL(a, b) == IF b = 0 THEN a ELSE gcdLL(b, a % b)

\* variant: the product, without the division by the gcd
lcmProduct(a, b) == a * b

lcmLL(a, b) ==
    LET g == gcdLL(a, b)
    IN  IF g = 0 THEN 0 ELSE (a \div g) * b

VARIABLES
    pc,             \* position in vRunOfflineEDFVD
    taskFile,       \* tasks.txt: the count N and the well-formed records
                    \* that precede the first malformed one (or the end)
    g_numTasks,     \* number of task records read
    tasks,          \* tasks[0 .. g_numTasks-1]
    execTimes,      \* exec_times.txt: its tokens, which repeat
    hyperPeriod,    \* in ticks
    U_H, U_L, x,    \* locals of computeEDFVDParameters (rationals)
    g_numJobs,
    jobs,           \* jobs[0 .. g_numJobs-1]
    g_numSlices,
    slices,         \* slices[0 .. g_numSlices-1]
    now,            \* local of scheduleEDFVD
    lastJobIndex,   \* local of scheduleEDFVD
    analysis,       \* schedule_analysis.txt
    sortMemo,       \* what qsort returned first for each tied array so far
    run,            \* which call of vRunOfflineEDFVD this is
    firstRun,       \* the slices and the analysis the first call produced
    tableSize,      \* the lengths of the static tables jobs[] and slices[]
    xTasksEDF,      \* edf_scheduler.c: period and next deadline per index
    uxPriority,     \* the kernel's priority of each registered task
    xTickCount,     \* the kernel's tick count
    edfPc,          \* where main, the scheduler task and the three
                    \* periodic tasks of the EDF demo are
    edfLocal,       \* their locals
    edfCalls        \* per index: the tick and period of its registration and
                    \* the number of calls of vUpdateTaskDeadline that returned

vars == <<pc, taskFile, g_numTasks, tasks, execTimes, hyperPeriod, U_H, U_L, x,
          g_numJobs, jobs, g_numSlices, slices, now, lastJobIndex,
          analysis, sortMemo, run, firstRun,
          tableSize, xTasksEDF, uxPriority, xTickCount, edfPc, edfLocal, edfCalls>>

\* the state of the runtime EDF demo (src/FreeRTOS/EDF), a program of its own
edfVars == <<xTasksEDF, uxPriority, xTickCount, edfPc, edfLocal, edfCalls>>

\* the empty table (a function with empty domain)
NoEntries == [i \in {} |-> 0]

\* the lengths the static tables are declared with
DeclaredSizes == [jobs |-> MAX_JOBS, slices |-> MAX_SLICES, active |-> MAX_ACTIVE]

\* ------------------------------------------------- TickType_t (32 bits wide)
\* A tick value is kept as its two 16-bit halves, so that sums wrap at 2^32.
HalfRange == 65536

TickOf(h, l) == [hi |-> h, lo |-> l]
TickZero == TickOf(0, 0)

\* (TickType_t) -1
TickMax == TickOf(HalfRange - 1, HalfRange - 1)

\* variant: the two halves are added separately, the carry is dropped
TickAddNoCarry(a, b) ==
    TickOf((a.hi + b.hi) % HalfRange, (a.lo + b.lo) % HalfRange)

\* a + b in TickType_t
TickAdd(a, b) ==
    LET l == a.lo + b.lo
        h == a.hi + b.hi + l \div HalfRange
    IN  TickOf(h % HalfRange, l % HalfRange)

\* a < b in TickType_t
\* a <= b in place of a < b
TickLe(a, b) == a.hi < b.hi \/ (a.hi = b.hi /\ a.lo <= b.lo)

TickLt(a, b) == a.hi < b.hi \/ (a.hi = b.hi /\ a.lo < b.lo)

\* ---------------------------------------------- the runtime EDF demo at rest
NUM_EDF_TASKS == 3
EdfIndices == 0 .. NUM_EDF_TASKS - 1

\* a NULL TaskHandle_t; the handle of a created task is its index
NoHandle == 0 - 1

\* main has not run yet: xTasksEDF is zero-initialised, no task exists
EDFAtStart(tick) ==
    /\ xTasksEDF = [i \in EdfIndices |->
                      [xHandle |-> NoHandle, xPeriod |-> TickZero,
                       xNextDeadline |-> TickZero]]
    /\ uxPriority = [i \in EdfIndices |-> 0]
    /\ xTickCount = tick
    /\ edfPc = [main |-> "create", sched |-> "none", task |-> [i \in EdfIndices |-> "none"]]
    /\ edfLocal = [i |-> 0, earliestDeadline |-> TickMax, earliestIndex |-> 0 - 1,
                   sum |-> [i \in EdfIndices |-> TickZero],
                   scanned |-> [i \in EdfIndices |-> TickZero]]
    /\ edfCalls = [i \in EdfIndices |-> [registered |-> FALSE, t0 |-> TickZero,
                                         p |-> TickZero, k |-> 0]]

\* ------------------------------------------------------------ parseTaskFile
\* One record as parseTaskFile leaves it: virtualDeadline = deadline,
\* jobCount = 0.
TaskRecord(ph, pd, w, dl, c) ==
    [phase |-> ph, period |-> pd, wcet |-> w, deadline |-> dl,
     critLevel |-> c, virtualDeadline |-> RInt(dl), jobCount |-> 0]

ParsedTasks ==
    {TaskRecord(ph, pd, w, dl, c) :
        ph \in PhaseSet, pd \in PeriodSet, w \in WcetSet,
        dl \in DeadlineSet, c \in CritSet}

\* tasks.txt: N records announced, of which the first `good` are well formed;
\* good < N means that record `good` is malformed (fscanf returns less than 6)
TaskFiles ==
    {[count |-> n, records |-> r] :
        n \in NumTasksSet,
        r \in UNION {[0 .. good - 1 -> ParsedTasks] : good \in NumTasksSet}}

WellFormedPrefix(file) == Cardinality(DOMAIN file.records)

\* nothing has been written to schedule_analysis.txt
NoAnalysis ==
    [written |-> FALSE, preemptions |-> 0, avgWait |-> RInt(0), avgResp |-> RInt(0)]

NoFirstRun == [ended |-> FALSE, slices |-> NoEntries, analysis |-> NoAnalysis]

Init ==
    /\ pc = "parse"
    /\ taskFile \in {f \in TaskFiles : WellFormedPrefix(f) <= f.count}
    /\ g_numTasks = 0
    /\ tasks = NoEntries
    /\ execTimes \in [0 .. TraceLen - 1 -> ExecSet]
    /\ analysis = NoAnalysis
    /\ sortMemo = NoEntries
    /\ run = 1
    /\ firstRun = NoFirstRun
    /\ hyperPeriod = 0
    /\ U_H = RInt(0)
    /\ U_L = RInt(0)
    /\ x = RInt(1)
    /\ g_numJobs = 0
    /\ jobs = NoEntries
    /\ g_numSlices = 0
    /\ slices = NoEntries
    /\ now = 0
    /\ lastJobIndex = -1
    /\ tableSize = DeclaredSizes
    /\ EDFAtStart(TickZero)

\* parseTaskFile and the g_numTasks <= 0 test of vRunOfflineEDFVD: the loop
\* stops at the first malformed record and keeps the records read so far
parseTaskFile ==
    /\ pc = "parse"
    /\ LET good == WellFormedPrefix(taskFile)
           read == IF good < taskFile.count THEN good ELSE taskFile.count
       IN  /\ g_numTasks' = read
           /\ tasks' = [i \in (DOMAIN tasks) \cup (0 .. read - 1) |->
                          IF i < read THEN taskFile.records[i] ELSE tasks[i]]
           /\ pc' = IF read <= 0 THEN "notasks" ELSE "hyper"
    /\ UNCHANGED <<taskFile, execTimes, hyperPeriod, U_H, U_L, x, g_numJobs, jobs,
                   g_numSlices, slices, now, lastJobIndex,
                   analysis, sortMemo, run, firstRun>>
    /\ UNCHANGED <<tableSize, edfVars>>

\* ------------------------------------------- computeHyperPeriodAndJobCounts
\* (long long)(period + 0.5), clamped to 1 when <= 0; in whole time units
RoundPeriod(pd) ==
    LET p_ll == (2 * pd + One) \div (2 * One)
    IN  IF p_ll <= 0 THEN 1 ELSE p_ll

RECURSIVE LcmUpTo(_, _)
\* l after the loop over arr[0 .. k-1]
LcmUpTo(tk, k) ==
    IF k = 0 THEN 1 ELSE lcmLL(LcmUpTo(tk, k - 1), RoundPeriod(tk[k - 1].period))

\* (int) floor((HP - ph) / pd), negative counts clamped to 0
FloorCount(HP, ph, pd) ==
    LET count == (HP - ph) \div pd
    IN  IF count < 0 THEN 0 ELSE count

JobCount(HP, ph, pd) ==
    IF ph >= HP THEN 0 ELSE FloorCount(HP, ph, pd)

computeHyperPeriodAndJobCounts ==
    /\ pc = "hyper"
    /\ LET validCount == IF g_numTasks > MAX_TASKS THEN MAX_TASKS ELSE g_numTasks
           HP == LcmUpTo(tasks, validCount) * One
       IN  /\ hyperPeriod' = HP
           /\ tasks' = [i \in DOMAIN tasks |->
                          IF i < validCount
                          THEN [tasks[i] EXCEPT
                                  !.jobCount = JobCount(HP, tasks[i].phase, tasks[i].period)]
                          ELSE tasks[i]]
    /\ pc' = "params"
    /\ UNCHANGED <<g_numTasks, execTimes, U_H, U_L, x, g_numJobs, jobs,
                   g_numSlices, slices, now, lastJobIndex>>
    /\ UNCHANGED <<taskFile, analysis, sortMemo, run, firstRun>>
    /\ UNCHANGED <<tableSize, edfVars>>

\* --------------------------------------------------- computeEDFVDParameters
RECURSIVE UtilUpTo(_, _, _)
\* the running sum of wcet/period over tasks[0 .. k-1] of level c
UtilUpTo(tk, k, c) ==
    IF k = 0 THEN RInt(0)
    ELSE LET util == RDiv(RInt(tk[k - 1].wcet), RInt(tk[k - 1].period))
         IN  IF tk[k - 1].critLevel = c
             THEN RAdd(UtilUpTo(tk, k - 1, c), util)
             ELSE UtilUpTo(tk, k - 1, c)

\* variant: the clamp of x to 1 is missing
ScalingFactorNoClamp(uh, ul) ==
    IF RLt(ul, RInt(1)) THEN RDiv(uh, RSub(RInt(1), ul)) ELSE RInt(1)

\* x = 1.0; if (U_L < 1.0) { x = U_H / (1.0 - U_L); if (x > 1.0) x = 1.0; }
ScalingFactor(uh, ul) ==
    IF RLt(ul, RInt(1))
    THEN LET q == RDiv(uh, RSub(RInt(1), ul))
         IN  IF RLt(RInt(1), q) THEN RInt(1) ELSE q
    ELSE RInt(1)

\* variant: the deadline of every task is scaled, whatever its level
ScaledDeadlineAll(task, xx) == RMul(RInt(task.deadline), xx)

ScaledDeadline(task, xx) ==
    IF task.critLevel = CRIT_HIGH
    THEN RMul(RInt(task.deadline), xx)
    ELSE task.virtualDeadline

computeEDFVDParameters ==
    /\ pc = "params"
    /\ LET uh == UtilUpTo(tasks, g_numTasks, CRIT_HIGH)
           ul == UtilUpTo(tasks, g_numTasks, CRIT_LOW)
           xx == ScalingFactor(uh, ul)
       IN  /\ U_H' = uh
           /\ U_L' = ul
           /\ x' = xx
           /\ tasks' = [i \in DOMAIN tasks |->
                          IF i < g_numTasks
                          THEN [tasks[i] EXCEPT
                                  !.virtualDeadline = ScaledDeadline(tasks[i], xx)]
                          ELSE tasks[i]]
    /\ pc' = "build"
    /\ UNCHANGED <<g_numTasks, execTimes, hyperPeriod, g_numJobs, jobs,
                   g_numSlices, slices, now, lastJobIndex>>
    /\ UNCHANGED <<taskFile, analysis, sortMemo, run, firstRun>>
    /\ UNCHANGED <<tableSize, edfVars>>

\* ------------------------------------------------------------ buildJobsArray
\* token k of the execution-times stream, whose tokens repeat
Token(k) == execTimes[k % Cardinality(DOMAIN execTimes)]

\* a place of the stream where fscanf("%lf") does not return 1: the end of
\* the file or a token that is not a number
BadToken == 0 - 1

\* the loop reading count tokens from position pos meets no bad token
TokensRead(pos, count) == \A k \in pos .. pos + count - 1 : Token(k) # BadToken

\* the job record written for job j of task t, arriving at arrival, with
\* actual execution time et
NewJob(tk, t, j, arrival, et) ==
    [taskIndex |-> t, jobId |-> j, arrivalTime |-> arrival,
     wcet |-> tk[t].wcet, actualExecTime |-> et, remainingTime |-> et,
     finished |-> FALSE,
     absoluteDeadline |-> arrival + tk[t].deadline,
     virtualDeadline |-> RAdd(RInt(arrival), tk[t].virtualDeadline),
     startTime |-> -1, finishTime |-> -1]

\* variant: the tokens of every task are read from the start of the file
JobsOfTaskFromStart(tk, t, pos, HP) ==
    LET count == tk[t].jobCount
        all == [k \in 1 .. count |->
                  NewJob(tk, t, k - 1, tk[t].phase + (k - 1) * tk[t].period,
                         Token(k - 1))]
        Before(job) == ~(job.arrivalTime >= HP)
    IN  SelectSeq(all, Before)

\* the jobs created for task t, whose tokens start at position pos; a job
\* whose arrival is not before HP is skipped
JobsOfTask(tk, t, pos, HP) ==
    LET count == tk[t].jobCount
        all == [k \in 1 .. count |->
                  NewJob(tk, t, k - 1, tk[t].phase + (k - 1) * tk[t].period,
                         Token(pos + k - 1))]
        Before(job) == ~(job.arrivalTime >= HP)
    IN  SelectSeq(all, Before)

RECURSIVE BuildFrom(_, _, _, _, _, _)
\* the loop over t = from .. n-1, acc being the jobs built so far and pos
\* the number of tokens read so far; the function returns with the jobs
\* built so far when a token cannot be read
BuildFrom(tk, from, n, acc, pos, HP) ==
    IF from >= n THEN acc
    ELSE IF tk[from].jobCount <= 0
         THEN BuildFrom(tk, from + 1, n, acc, pos, HP)
         ELSE IF ~TokensRead(pos, tk[from].jobCount)
         THEN acc
         ELSE BuildFrom(tk, from + 1, n, acc \o JobsOfTask(tk, from, pos, HP),
                        pos + tk[from].jobCount, HP)

\* the function returns as soon as g_numJobs reaches MAX_JOBS
BuiltJobs(tk, n, HP) ==
    LET all == BuildFrom(tk, 0, n, <<>>, 0, HP)
    IN  IF Len(all) >= tableSize.jobs THEN SubSeq(all, 1, tableSize.jobs) ELSE all

\* buildJobsArray, the g_numJobs <= 0 test of vRunOfflineEDFVD and the
\* entry of scheduleEDFVD (now = 0, g_numSlices = 0, lastJobIndex = -1)
buildJobsArray ==
    /\ pc = "build"
    /\ LET built == BuiltJobs(tasks, g_numTasks, hyperPeriod)
       IN  /\ g_numJobs' = Len(built)
           /\ jobs' = [i \in (DOMAIN jobs) \cup (0 .. Len(built) - 1) |->
                         IF i < Len(built) THEN built[i + 1] ELSE jobs[i]]
           /\ pc' = IF Len(built) <= 0 THEN "done" ELSE "sched"
    /\ now' = 0
    /\ g_numSlices' = 0
    /\ lastJobIndex' = -1
    /\ UNCHANGED <<g_numTasks, tasks, execTimes, hyperPeriod, U_H, U_L, x, slices>>
    /\ UNCHANGED <<taskFile, analysis, sortMemo, run, firstRun>>
    /\ UNCHANGED <<tableSize, edfVars>>

\* ------------------------------------------------------------ scheduleEDFVD
\* activeIndices: arrived, not finished, remaining time left
IsActive(job, t) ==
    /\ ~job.finished
    /\ job.arrivalTime <= t
    /\ job.remainingTime > 0

ActiveIndices(jb, n, t) == {i \in 0 .. n - 1 : IsActive(jb[i], t)}

SetMax(S) == CHOOSE m \in S : \A k \in S : k <= m

SetMin(S) == CHOOSE m \in S : \A k \in S : m <= k

\* variant: the search for the next arrival does not start from HP
NextArrivalUncapped(jb, n, t, HP) ==
    SetMin({2 * HP} \cup {jb[i].arrivalTime : i \in {k \in 0 .. n - 1 :
                             ~jb[k].finished /\ jb[k].arrivalTime > t}})

\* variant: an arrival at t itself counts as the next arrival
NextArrivalInclusive(jb, n, t, HP) ==
    SetMin({HP} \cup {jb[i].arrivalTime : i \in {k \in 0 .. n - 1 :
                         ~jb[k].finished /\ jb[k].arrivalTime >= t}})

\* the earliest arrival after t among unfinished jobs, HP when there is none
NextArrival(jb, n, t, HP) ==
    SetMin({HP} \cup {jb[i].arrivalTime : i \in {k \in 0 .. n - 1 :
                         ~jb[k].finished /\ jb[k].arrivalTime > t}})

\* variant: the comparison inverted, the latest virtual deadline comes first
SortedLast(jb, active) ==
    {i \in active : \A k \in active : ~RLt(jb[i].virtualDeadline, jb[k].virtualDeadline)}

\* compareVDL orders by virtualDeadline only and returns 0 on a tie; qsort
\* leaves the order of equal elements unspecified, so tmp[0] may be the copy
\* of any active job of least virtualDeadline
SortedFirst(jb, active) ==
    {i \in active : \A k \in active : ~RLt(jb[k].virtualDeadline, jb[i].virtualDeadline)}

\* the scan that matches tmp[0] (a copy of jb[f]) back to the job table:
\* the first active index equal in virtualDeadline, taskIndex and jobId;
\* -1 when nothing matches
MatchChosen(jb, active, f) ==
    LET same == {i \in active :
                    /\ REq(jb[i].virtualDeadline, jb[f].virtualDeadline)
                    /\ jb[i].taskIndex = jb[f].taskIndex
                    /\ jb[i].jobId = jb[f].jobId}
    IN  IF same = {} THEN -1 ELSE SetMin(same)

\* variant: the chosen job always runs to its completion
NextDecisionIgnoreArrival(nextArrival, finishIfUninterrupted) == finishIfUninterrupted

NextDecision(nextArrival, finishIfUninterrupted) ==
    IF nextArrival < finishIfUninterrupted THEN nextArrival ELSE finishIfUninterrupted

\* variant: a whole time unit taken for the tolerance
JobDoneLoose(remainingTime) == remainingTime <= One

\* variant: no tolerance, the job is done when nothing at all remains
JobDoneExact(remainingTime) == remainingTime <= 0

\* remainingTime <= 1e-9
JobDone(remainingTime) == remainingTime <= EPS

\* an entry of the static slice table that was never written
ZeroSlice == [start |-> 0, end |-> 0, taskIndex |-> 0, jobId |-> 0]

\* variant: the end of the current slice is written only when it is opened
SlicesAfterNoExtend(sl, ns, opened, job, t, nextDecision) ==
    IF opened
    THEN [i \in (DOMAIN sl) \cup {ns} |->
            IF i = ns
            THEN [start |-> t, end |-> nextDecision,
                  taskIndex |-> job.taskIndex, jobId |-> job.jobId]
            ELSE sl[i]]
    ELSE sl

\* variant: a new slice starts at the arrival of its job instead of now
SlicesAfterFromArrival(sl, ns, opened, job, t, nextDecision) ==
    IF opened
    THEN [i \in (DOMAIN sl) \cup {ns} |->
            IF i = ns
            THEN [start |-> job.arrivalTime, end |-> nextDecision,
                  taskIndex |-> job.taskIndex, jobId |-> job.jobId]
            ELSE sl[i]]
    ELSE [sl EXCEPT ![ns - 1].end = nextDecision]

\* the slice table after the chosen job is dispatched from t to nextDecision
SlicesAfter(sl, ns, opened, job, t, nextDecision) ==
    IF opened
    THEN [i \in (DOMAIN sl) \cup {ns} |->
            IF i = ns
            THEN [start |-> t, end |-> nextDecision,
                  taskIndex |-> job.taskIndex, jobId |-> job.jobId]
            ELSE sl[i]]
    ELSE [sl EXCEPT ![ns - 1].end = nextDecision]

\* variant: the dispatch also moves the arrival of the job to t
JobAfterMovesArrival(job, t, nextDecision) ==
    LET rem == job.remainingTime - (nextDecision - t)
        st == IF job.startTime < 0 THEN t ELSE job.startTime
    IN  [job EXCEPT !.remainingTime = rem,
                    !.startTime = st,
                    !.arrivalTime = t,
                    !.finished = IF JobDone(rem) THEN TRUE ELSE @,
                    !.finishTime = IF JobDone(rem) THEN nextDecision ELSE @]

\* the job record after running from t to nextDecision
JobAfter(job, t, nextDecision) ==
    LET rem == job.remainingTime - (nextDecision - t)
        st == IF job.startTime < 0 THEN t ELSE job.startTime
    IN  [job EXCEPT !.remainingTime = rem,
                    !.startTime = st,
                    !.finished = IF JobDone(rem) THEN TRUE ELSE @,
                    !.finishTime = IF JobDone(rem) THEN nextDecision ELSE @]

\* variant: every dispatch opens a slice
OpensSliceAlways(chosenIndex, last) == TRUE

\* if (chosenIndex != lastJobIndex): a new scheduling slice
OpensSlice(chosenIndex, last) == chosenIndex # last

\* the body shared by both branches once chosenIndex is known
RunChosen(chosenIndex) ==
    LET remain == jobs[chosenIndex].remainingTime
        nextArrival == NextArrival(jobs, g_numJobs, now, hyperPeriod)
        nextDecision == NextDecision(nextArrival, now + remain)
        opened == OpensSlice(chosenIndex, lastJobIndex)
    IN  IF opened /\ g_numSlices + 1 >= tableSize.slices
        THEN \* "slices array full": return with the counter already raised
             /\ g_numSlices' = g_numSlices + 1
             /\ slices' = [i \in (DOMAIN slices) \cup {g_numSlices} |->
                             IF i \in DOMAIN slices THEN slices[i] ELSE ZeroSlice]
             /\ pc' = "write"
             /\ UNCHANGED <<jobs, now, lastJobIndex>>
        ELSE /\ g_numSlices' = IF opened THEN g_numSlices + 1 ELSE g_numSlices
             /\ slices' = SlicesAfter(slices, g_numSlices, opened,
                                      jobs[chosenIndex], now, nextDecision)
             /\ lastJobIndex' = chosenIndex
             /\ jobs' = [jobs EXCEPT ![chosenIndex] = JobAfter(@, now, nextDecision)]
             /\ now' = nextDecision
             /\ pc' = "sched"

\* while (now < hyperPeriod) fails
LoopExit ==
    /\ pc = "sched"
    /\ ~(now < hyperPeriod)
    /\ pc' = "write"
    /\ UNCHANGED <<g_numTasks, tasks, execTimes, hyperPeriod, U_H, U_L, x,
                   g_numJobs, jobs, g_numSlices, slices, now, lastJobIndex>>
    /\ UNCHANGED <<taskFile, analysis, sortMemo, run, firstRun>>
    /\ UNCHANGED <<tableSize, edfVars>>

\* variant: the idle jump lands just after the arrival
IdleSkipOvershoot ==
    /\ pc = "sched"
    /\ now < hyperPeriod
    /\ ActiveIndices(jobs, g_numJobs, now) = {}
    /\ LET nextArrival == NextArrival(jobs, g_numJobs, now, hyperPeriod)
       IN  /\ nextArrival > now /\ nextArrival < hyperPeriod
           /\ now' = nextArrival + EPS
    /\ UNCHANGED <<pc, g_numTasks, tasks, execTimes, hyperPeriod, U_H, U_L, x,
                   g_numJobs, jobs, g_numSlices, slices, lastJobIndex>>
    /\ UNCHANGED <<taskFile, analysis, sortMemo, run, firstRun>>
    /\ UNCHANGED <<tableSize, edfVars>>

\* activeCount == 0 and a later arrival before hyperPeriod: jump to it
IdleSkip ==
    /\ pc = "sched"
    /\ now < hyperPeriod
    /\ ActiveIndices(jobs, g_numJobs, now) = {}
    /\ LET nextArrival == NextArrival(jobs, g_numJobs, now, hyperPeriod)
       IN  /\ nextArrival > now /\ nextArrival < hyperPeriod
           /\ now' = nextArrival
    /\ UNCHANGED <<pc, g_numTasks, tasks, execTimes, hyperPeriod, U_H, U_L, x,
                   g_numJobs, jobs, g_numSlices, slices, lastJobIndex>>
    /\ UNCHANGED <<taskFile, analysis, sortMemo, run, firstRun>>
    /\ UNCHANGED <<tableSize, edfVars>>

\* activeCount == 0 and no arrival left before hyperPeriod: break
IdleBreak ==
    /\ pc = "sched"
    /\ now < hyperPeriod
    /\ ActiveIndices(jobs, g_numJobs, now) = {}
    /\ LET nextArrival == NextArrival(jobs, g_numJobs, now, hyperPeriod)
       IN  ~(nextArrival > now /\ nextArrival < hyperPeriod)
    /\ pc' = "write"
    /\ UNCHANGED <<g_numTasks, tasks, execTimes, hyperPeriod, U_H, U_L, x,
                   g_numJobs, jobs, g_numSlices, slices, now, lastJobIndex>>
    /\ UNCHANGED <<taskFile, analysis, sortMemo, run, firstRun>>
    /\ UNCHANGED <<tableSize, edfVars>>

\* the array handed to qsort: the copies of the active jobs
TmpArray(jb, active) == [i \in active |-> jb[i]]

\* variant: qsort orders tied keys anew on every call
SortChoicesAnew(memo, jb, active) == SortedFirst(jb, active)

\* qsort is a function of the array it is given: where the order of tied
\* elements is unspecified, the same array always comes back the same way
SortChoices(memo, jb, active) ==
    LET tmp == TmpArray(jb, active)
    IN  IF tmp \in DOMAIN memo THEN {memo[tmp]} ELSE SortedFirst(jb, active)

MemoAfter(memo, jb, active, f) ==
    LET tmp == TmpArray(jb, active)
    IN  IF Cardinality(SortedFirst(jb, active)) > 1 /\ tmp \notin DOMAIN memo
        THEN [k \in (DOMAIN memo) \cup {tmp} |-> IF k = tmp THEN f ELSE memo[k]]
        ELSE memo

\* activeCount > 1: sort a copy, take its first element, match it back.
\* With more active jobs than activeIndices[] holds, the scan has written past
\* the end of the array, which is undefined: the process is either stopped
\* there or goes on as if the array were long enough.
DispatchEarliest ==
    /\ pc = "sched"
    /\ now < hyperPeriod
    /\ LET active == ActiveIndices(jobs, g_numJobs, now)
       IN  /\ Cardinality(active) > 1
           /\ \/ /\ Cardinality(active) > tableSize.active
                 /\ pc' = "abort"
                 /\ UNCHANGED <<jobs, g_numSlices, slices, now, lastJobIndex, sortMemo>>
              \/ \E f \in SortChoices(sortMemo, jobs, active) :
                   /\ sortMemo' = MemoAfter(sortMemo, jobs, active, f)
                   /\ LET chosenIndex == MatchChosen(jobs, active, f)
                      IN  IF chosenIndex < 0
                          THEN /\ pc' = "write"
                               /\ UNCHANGED <<jobs, g_numSlices, slices, now, lastJobIndex>>
                          ELSE RunChosen(chosenIndex)
    /\ UNCHANGED <<g_numTasks, tasks, execTimes, hyperPeriod, U_H, U_L, x, g_numJobs>>
    /\ UNCHANGED <<taskFile, analysis, run, firstRun>>
    /\ UNCHANGED <<tableSize, edfVars>>

\* exactly one active job
DispatchOnly ==
    /\ pc = "sched"
    /\ now < hyperPeriod
    /\ LET active == ActiveIndices(jobs, g_numJobs, now)
       IN  /\ Cardinality(active) = 1
           /\ RunChosen(SetMin(active))
    /\ UNCHANGED <<g_numTasks, tasks, execTimes, hyperPeriod, U_H, U_L, x, g_numJobs>>
    /\ UNCHANGED <<taskFile, analysis, sortMemo, run, firstRun>>
    /\ UNCHANGED <<tableSize, edfVars>>

\* ---------------------------------------------------------- analyzeSchedule
RECURSIVE PreemptionsByTask(_, _)
\* variant: only the task index is compared
PreemptionsByTask(sl, n) ==
    IF n <= 1 THEN 0
    ELSE PreemptionsByTask(sl, n - 1)
         + (IF sl[n - 1].taskIndex # sl[n - 2].taskIndex THEN 1 ELSE 0)

RECURSIVE Preemptions(_, _)
\* the count after the loop over i = 1 .. n-1
Preemptions(sl, n) ==
    IF n <= 1 THEN 0
    ELSE Preemptions(sl, n - 1)
         + (IF sl[n - 1].taskIndex # sl[n - 2].taskIndex
               \/ sl[n - 1].jobId # sl[n - 2].jobId
            THEN 1 ELSE 0)

RECURSIVE FinishedUpTo(_, _)
\* finishedJobs after the loop over jobs 0 .. n-1
FinishedUpTo(jb, n) ==
    IF n = 0 THEN 0
    ELSE FinishedUpTo(jb, n - 1) + (IF jb[n - 1].finished THEN 1 ELSE 0)

RECURSIVE TotalWaitUpTo(_, _)
TotalWaitUpTo(jb, n) ==
    IF n = 0 THEN 0
    ELSE TotalWaitUpTo(jb, n - 1)
         + (IF jb[n - 1].finished
            THEN jb[n - 1].startTime - jb[n - 1].arrivalTime ELSE 0)

RECURSIVE TotalRespFromStart(_, _)
\* variant: the time from the first dispatch to the finish
TotalRespFromStart(jb, n) ==
    IF n = 0 THEN 0
    ELSE TotalRespFromStart(jb, n - 1)
         + (IF jb[n - 1].finished
            THEN jb[n - 1].finishTime - jb[n - 1].startTime ELSE 0)

RECURSIVE TotalRespUpTo(_, _)
TotalRespUpTo(jb, n) ==
    IF n = 0 THEN 0
    ELSE TotalRespUpTo(jb, n - 1)
         + (IF jb[n - 1].finished
            THEN jb[n - 1].finishTime - jb[n - 1].arrivalTime ELSE 0)

\* total / finishedJobs, 0 when no job finished
Average(total, finishedJobs) ==
    IF finishedJobs > 0 THEN RDiv(RInt(total), RInt(finishedJobs)) ELSE RInt(0)

\* writeScheduleToFile (which changes no state of the program) followed by
\* analyzeSchedule
analyzeSchedule ==
    /\ pc = "write"
    /\ LET finishedJobs == FinishedUpTo(jobs, g_numJobs)
       IN  analysis' =
              [written |-> TRUE,
               preemptions |-> Preemptions(slices, g_numSlices),
               avgWait |-> Average(TotalWaitUpTo(jobs, g_numJobs), finishedJobs),
               avgResp |-> Average(TotalRespUpTo(jobs, g_numJobs), finishedJobs)]
    /\ pc' = "end"
    /\ UNCHANGED <<taskFile, g_numTasks, tasks, execTimes, hyperPeriod, U_H, U_L, x,
                   g_numJobs, jobs, g_numSlices, slices, now, lastJobIndex,
                   sortMemo, run, firstRun>>
    /\ UNCHANGED <<tableSize, edfVars>>

Next ==
    \/ parseTaskFile
    \/ computeHyperPeriodAndJobCounts
    \/ computeEDFVDParameters
    \/ buildJobsArray
    \/ LoopExit
    \/ IdleSkip
    \/ IdleBreak
    \/ DispatchEarliest
    \/ DispatchOnly
    \/ analyzeSchedule

\* vRunOfflineEDFVD is called again in the same process: the three counters
\* are cleared (lines 92-94), the locals of the first call are gone, the
\* tables keep what the first call left in them and the files are read anew.
\* What the first call wrote is kept in firstRun for comparison.
Rerun ==
    /\ pc \in {"notasks", "done", "end"}
    /\ run = 1
    /\ run' = 2
    /\ firstRun' = [ended |-> TRUE,
                    slices |-> [i \in 0 .. g_numSlices - 1 |-> slices[i]],
                    analysis |-> analysis]
    /\ pc' = "parse"
    /\ g_numTasks' = 0
    /\ g_numJobs' = 0
    /\ g_numSlices' = 0
    /\ hyperPeriod' = 0
    /\ U_H' = RInt(0)
    /\ U_L' = RInt(0)
    /\ x' = RInt(1)
    /\ now' = 0
    /\ lastJobIndex' = -1
    /\ UNCHANGED <<taskFile, execTimes, tasks, jobs, slices, analysis, sortMemo>>
    /\ UNCHANGED <<tableSize, edfVars>>

Spec == Init /\ [][Next]_vars

\* the state in which vRunOfflineEDFVD is entered, with tasks.txt one of
\* files, exec_times.txt one of traces and the tables of one of sizes
InitSized(files, traces, sizes) ==
    /\ pc = "parse"
    /\ taskFile \in files
    /\ execTimes \in traces
    /\ tableSize \in sizes
    /\ g_numTasks = 0
    /\ tasks = NoEntries
    /\ analysis = NoAnalysis
    /\ sortMemo = NoEntries
    /\ run = 1
    /\ firstRun = NoFirstRun
    /\ hyperPeriod = 0
    /\ U_H = RInt(0)
    /\ U_L = RInt(0)
    /\ x = RInt(1)
    /\ g_numJobs = 0
    /\ jobs = NoEntries
    /\ g_numSlices = 0
    /\ slices = NoEntries
    /\ now = 0
    /\ lastJobIndex = -1
    /\ EDFAtStart(TickZero)

InitFrom(files, traces) == InitSized(files, traces, {DeclaredSizes})

\* traces that end early, hold a token that is not a number, or hold an
\* execution time of 0
TraceTokenSet == {BadToken, 0 - One, 0, EPS, One, 2 * One}

\* well-formed task files of one or two tasks with wcet 1 and deadline = period
TraceTaskFiles ==
    {f \in TaskFiles :
        /\ f.count > 0
        /\ WellFormedPrefix(f) = f.count
        /\ \A i \in DOMAIN f.records :
              /\ f.records[i].wcet = One
              /\ f.records[i].deadline = f.records[i].period}

InitTrace == InitFrom(TraceTaskFiles, [0 .. TraceLen - 1 -> TraceTokenSet])

\* the whole run on traces that may be short or invalid
SpecTrace == InitTrace /\ [][Next]_vars

\* The table lengths are compile-time parameters of the code (MAX_JOBS,
\* slices[10000]); runs that fill tables of the declared lengths are too long
\* to enumerate, so the paths taken when a table is full are explored with
\* the same code on short tables that keep the declared proportions of slices
\* and of active-set entries to jobs.
SmallJobs == 3

InitCapacity ==
    InitSized(TraceTaskFiles, [0 .. TraceLen - 1 -> ExecSet],
              {[jobs |-> SmallJobs,
                slices |-> SmallJobs * (MAX_SLICES \div MAX_JOBS),
                active |-> (SmallJobs * MAX_ACTIVE) \div MAX_JOBS]})

SpecCapacity == InitCapacity /\ [][Next]_vars

\* computeHyperPeriodAndJobCounts on its own, applied to task tables whose
\* periods include fractions and a period that rounds to 0
HyperNumTasksSet == {1, 2, 3}
HyperPeriodSet ==
    {1, One + One \div 2, 2 * One, 2 * One + 1, 2 * One + One \div 2, 3 * One, 4 * One}

HyperTasks == {TaskRecord(0, pd, One, pd, CRIT_LOW) : pd \in HyperPeriodSet}

InitHyper ==
    /\ pc = "hyper"
    /\ g_numTasks \in HyperNumTasksSet
    /\ tasks \in [0 .. g_numTasks - 1 -> HyperTasks]
    /\ taskFile = [count |-> g_numTasks, records |-> tasks]
    /\ execTimes = [i \in 0 .. TraceLen - 1 |-> One]
    /\ analysis = NoAnalysis
    /\ sortMemo = NoEntries
    /\ run = 1
    /\ firstRun = NoFirstRun
    /\ hyperPeriod = 0
    /\ U_H = RInt(0)
    /\ U_L = RInt(0)
    /\ x = RInt(1)
    /\ g_numJobs = 0
    /\ jobs = NoEntries
    /\ g_numSlices = 0
    /\ slices = NoEntries
    /\ now = 0
    /\ lastJobIndex = -1
    /\ tableSize = DeclaredSizes
    /\ EDFAtStart(TickZero)

NextHyper == computeHyperPeriodAndJobCounts

SpecHyper == InitHyper /\ [][NextHyper]_vars

\* the simulation run twice in one process
NextRerun == Next \/ Rerun

SpecRerun == Init /\ [][NextRerun]_vars

\* one pass through the body of the while loop of scheduleEDFVD, or its exit
LoopStep == LoopExit \/ IdleSkip \/ IdleBreak \/ DispatchEarliest \/ DispatchOnly

\* the loop runs on: an iteration that can be taken is eventually taken
FairSpec == Spec /\ WF_vars(LoopStep)

\* ================================================================ properties
Scheduling == pc \in {"sched", "write", "end"}
AfterParams == pc \in {"build", "sched", "write", "done", "end"}

JobIds == 0 .. g_numJobs - 1
SliceIds == 0 .. g_numSlices - 1

\* the job a slice bears the identity of
SliceJob(k) ==
    CHOOSE i \in JobIds : /\ jobs[i].taskIndex = slices[k].taskIndex
                          /\ jobs[i].jobId = slices[k].jobId

\* job i is active (arrived, unfinished, work left) at some instant of [s, e)
ActiveDuring(i, s, e) ==
    /\ jobs[i].actualExecTime > 0
    /\ jobs[i].arrivalTime < e
    /\ jobs[i].finished => jobs[i].finishTime > s

RECURSIVE BilledUpTo(_, _, _)
\* total length of the slices 0 .. k-1 that bear the identity of job i
BilledUpTo(sl, k, job) ==
    IF k = 0 THEN 0
    ELSE BilledUpTo(sl, k - 1, job)
         + (IF sl[k - 1].taskIndex = job.taskIndex /\ sl[k - 1].jobId = job.jobId
            THEN sl[k - 1].end - sl[k - 1].start ELSE 0)

Billed(i) == BilledUpTo(slices, g_numSlices, jobs[i])

\* C1: every slice belongs to a job whose virtual absolute deadline is not
\* later than that of any other job active at some time during the slice.
EarliestVirtualDeadlineRuns ==
    Scheduling =>
        \A k \in SliceIds : \A i \in JobIds :
            (i # SliceJob(k) /\ ActiveDuring(i, slices[k].start, slices[k].end))
                => RLeq(jobs[SliceJob(k)].virtualDeadline, jobs[i].virtualDeadline)

\* C1 witness: a slice ran while another job with a strictly later virtual
\* deadline was active.
EarliestRunsWitness ==
    /\ Scheduling
    /\ \E k \in SliceIds : \E i \in JobIds :
          /\ i # SliceJob(k)
          /\ ActiveDuring(i, slices[k].start, slices[k].end)
          /\ RLt(jobs[SliceJob(k)].virtualDeadline, jobs[i].virtualDeadline)

\* C2: among active jobs of equal (least) virtual absolute deadline the one
\* dispatched has the smaller task index, then the smaller job id.
TieBreakBySmallerIndex ==
    Scheduling =>
        \A k \in SliceIds : \A i \in JobIds :
            (/\ i # SliceJob(k)
             /\ ActiveDuring(i, slices[k].start, slices[k].end)
             /\ REq(jobs[SliceJob(k)].virtualDeadline, jobs[i].virtualDeadline))
                => \/ slices[k].taskIndex < jobs[i].taskIndex
                   \/ /\ slices[k].taskIndex = jobs[i].taskIndex
                      /\ slices[k].jobId < jobs[i].jobId

\* C3: for each job, actual execution time minus remaining time is the total
\* length of the slices bearing its identity.
BilledIsExecuted ==
    Scheduling =>
        \A i \in JobIds : jobs[i].actualExecTime - jobs[i].remainingTime = Billed(i)

\* C3 witness: a job that was preempted and resumed: two slices bear its
\* identity, and it still has work left.
BilledWitness ==
    /\ Scheduling
    /\ \E i \in JobIds :
          /\ jobs[i].remainingTime > 0
          /\ Cardinality({k \in SliceIds : SliceJob(k) = i}) >= 2

\* 1e-6, the tolerance of the billing test, in ticks
Tolerance == 1000 * EPS

\* C4 as stated: a finished job has finish_time - arrival >= actual_exec, and
\* the time billed to it is within 1e-6 of actual_exec.
FinishedJobRanItsExecTime ==
    Scheduling =>
        \A i \in JobIds : jobs[i].finished =>
            /\ jobs[i].finishTime - jobs[i].arrivalTime >= jobs[i].actualExecTime
            /\ Abs(Billed(i) - jobs[i].actualExecTime) <= Tolerance

\* C4 amended: a finished job has finish_time - arrival >= actual_exec - 1e-9,
\* and the time billed to it is within 1e-9 (hence within 1e-6) of
\* actual_exec.
FinishedJobRanWithinEps ==
    Scheduling =>
        \A i \in JobIds : jobs[i].finished =>
            /\ jobs[i].finishTime - jobs[i].arrivalTime >= jobs[i].actualExecTime - EPS
            /\ Abs(Billed(i) - jobs[i].actualExecTime) <= EPS

\* C4 witness: a job was marked finished with a positive residue, next to a
\* job that waited and finished later than arrival + actual_exec.
FinishedWitness ==
    /\ Scheduling
    /\ \E i \in JobIds : jobs[i].finished /\ jobs[i].remainingTime > 0
    /\ \E i \in JobIds :
          /\ jobs[i].finished
          /\ jobs[i].finishTime - jobs[i].arrivalTime > jobs[i].actualExecTime

\* C5: slices never overlap: an earlier slice ends no later than a later one
\* starts.
SlicesDoNotOverlap ==
    Scheduling =>
        \A a \in SliceIds : \A b \in SliceIds :
            a < b => slices[a].end <= slices[b].start

\* C5 witness: three slices, the last one opened after an idle gap.
NoOverlapWitness ==
    /\ Scheduling
    /\ g_numSlices >= 3
    /\ slices[g_numSlices - 2].end < slices[g_numSlices - 1].start

\* C6: every job has arrival = phase + job_id * period with 0 <= arrival < H,
\* and every slice ends at or before H.
WithinHyperPeriod ==
    Scheduling =>
        /\ \A i \in JobIds :
              /\ jobs[i].arrivalTime
                    = tasks[jobs[i].taskIndex].phase
                      + jobs[i].jobId * tasks[jobs[i].taskIndex].period
              /\ 0 <= jobs[i].arrivalTime
              /\ jobs[i].arrivalTime < hyperPeriod
        /\ \A k \in SliceIds : slices[k].end <= hyperPeriod

\* C6 witness: the processor is still busy when the hyperperiod ends: the
\* last slice ends at H and its job has work left.
HyperPeriodWitness ==
    /\ pc = "write"
    /\ g_numSlices > 0
    /\ slices[g_numSlices - 1].end = hyperPeriod
    /\ \E i \in JobIds : jobs[i].arrivalTime > 0 /\ jobs[i].remainingTime > EPS

\* C7: jobCount is the number of k >= 0 with phase + k * period < H.
ArrivalsBefore(HP, ph, pd) == {k \in 0 .. HP : ph + k * pd < HP}

JobCountIsArrivalCount ==
    AfterParams =>
        \A t \in 0 .. g_numTasks - 1 :
            tasks[t].jobCount
                = Cardinality(ArrivalsBefore(hyperPeriod, tasks[t].phase, tasks[t].period))

\* C8: HI tasks have virtual_deadline = deadline * x, LO tasks have
\* virtual_deadline = deadline; every job has virtual absolute deadline
\* = arrival + its task's virtual_deadline and absolute deadline
\* = arrival + deadline.
VirtualDeadlineIdentity ==
    AfterParams =>
        /\ \A t \in 0 .. g_numTasks - 1 :
              IF tasks[t].critLevel = CRIT_HIGH
              THEN tasks[t].virtualDeadline.n * x.d
                      = tasks[t].deadline * x.n * tasks[t].virtualDeadline.d
              ELSE /\ tasks[t].virtualDeadline.n = tasks[t].deadline
                   /\ tasks[t].virtualDeadline.d = 1
        /\ \A i \in JobIds :
              LET task == tasks[jobs[i].taskIndex]
                  vd == jobs[i].virtualDeadline
              IN  /\ vd.n * task.virtualDeadline.d
                        = (jobs[i].arrivalTime * task.virtualDeadline.d
                           + task.virtualDeadline.n) * vd.d
                  /\ jobs[i].absoluteDeadline = jobs[i].arrivalTime + task.deadline

\* C8 witness: jobs have been built for a HI task scaled by x < 1 and for a
\* LO task.
VirtualDeadlineWitness ==
    /\ Scheduling
    /\ RLt(x, RInt(1))
    /\ \E i \in JobIds : tasks[jobs[i].taskIndex].critLevel = CRIT_HIGH
                         /\ jobs[i].arrivalTime > 0
    /\ \E i \in JobIds : tasks[jobs[i].taskIndex].critLevel = CRIT_LOW

\* C9: 0 < x <= 1, and x = 1 when every task is LO.
ScalingFactorInUnitInterval ==
    AfterParams =>
        /\ RLt(RInt(0), x)
        /\ RLeq(x, RInt(1))
        /\ (\A t \in 0 .. g_numTasks - 1 : tasks[t].critLevel = CRIT_LOW)
              => REq(x, RInt(1))

\* utilization of the tasks of level c, times the product of all periods
RECURSIVE PeriodProduct(_)
PeriodProduct(S) ==
    IF S = {} THEN 1
    ELSE LET t == CHOOSE u \in S : TRUE
         IN  tasks[t].period * PeriodProduct(S \ {t})

RECURSIVE ScaledUtil(_, _)
ScaledUtil(S, P) ==
    IF S = {} THEN 0
    ELSE LET t == CHOOSE u \in S : TRUE
         IN  (tasks[t].wcet * P) \div tasks[t].period + ScaledUtil(S \ {t}, P)

\* C10: x = 1 when U_LO >= 1, otherwise x = min(1, U_HI / (1 - U_LO)); in
\* particular x = 1 whenever U_HI > 1 or U_LO >= 1.
ScalingFactorFormula ==
    AfterParams =>
        LET P == PeriodProduct(0 .. g_numTasks - 1)
            uhi == ScaledUtil({t \in 0 .. g_numTasks - 1 : tasks[t].critLevel = CRIT_HIGH}, P)
            ulo == ScaledUtil({t \in 0 .. g_numTasks - 1 : tasks[t].critLevel = CRIT_LOW}, P)
        IN  /\ IF ulo >= P \/ uhi >= P - ulo
               THEN x.n = x.d
               ELSE x.n * (P - ulo) = uhi * x.d
            /\ (uhi > P \/ ulo >= P) => x.n = x.d

\* C10 witness: U_HI > 1 with U_LO < 1: the quotient was clamped to 1 and the
\* simulation went on to dispatch jobs.
ScalingFormulaWitness ==
    /\ pc = "sched"
    /\ g_numSlices > 0
    /\ RLt(RInt(1), U_H)
    /\ RLt(U_L, RInt(1))
    /\ REq(x, RInt(1))

\* same (taskIndex, jobId)
SameIdentity(a, b) == a.taskIndex = b.taskIndex /\ a.jobId = b.jobId

\* some job arrives strictly inside slice k
SpansArrival(k) ==
    \E i \in JobIds : /\ slices[k].start < jobs[i].arrivalTime
                      /\ jobs[i].arrivalTime < slices[k].end

\* C11: every slice has start < end, starts are strictly increasing, and two
\* consecutive slices never bear the same (taskIndex, jobId).
SlicesMergedAndOrdered ==
    Scheduling =>
        /\ \A k \in SliceIds : slices[k].start < slices[k].end
        /\ \A k \in SliceIds : k + 1 \in SliceIds =>
              /\ slices[k].start < slices[k + 1].start
              /\ ~SameIdentity(slices[k], slices[k + 1])

\* C11 witness: a slice was extended across the arrival of another job, and
\* a slice of a different job follows it.
MergedWitness ==
    /\ Scheduling
    /\ \E k \in SliceIds : k + 1 \in SliceIds /\ SpansArrival(k)

\* C12 as stated: each slice starts where the previous one ends.
ConsecutiveSlicesAbut ==
    Scheduling =>
        \A k \in SliceIds : k + 1 \in SliceIds => slices[k + 1].start = slices[k].end

\* C12 amended: each slice starts no earlier than the previous one ends, and
\* later only if no job was active in between (the processor was idle).
SlicesAbutUnlessIdle ==
    Scheduling =>
        \A k \in SliceIds : k + 1 \in SliceIds =>
            /\ slices[k + 1].start >= slices[k].end
            /\ slices[k + 1].start > slices[k].end =>
                  \A i \in JobIds : ~ActiveDuring(i, slices[k].end, slices[k + 1].start)

\* C12 witness: three slices, the first two abutting, the third after an idle
\* gap.
AbutWitness ==
    /\ Scheduling
    /\ \E k \in SliceIds :
          /\ k + 2 \in SliceIds
          /\ slices[k + 1].start = slices[k].end
          /\ slices[k + 2].start > slices[k + 1].end

\* C13 as stated: no slice contains the arrival of a job strictly inside.
NoSliceCrossesArrival ==
    Scheduling => \A k \in SliceIds : ~SpansArrival(k)

\* C13 amended: no iteration of the loop crosses an arrival: now never moves
\* from before the arrival of a job to after it (a slice spans an arrival
\* only by being extended at that arrival).
StepsStopAtArrivals ==
    [][pc = "sched" =>
          \A i \in JobIds : ~(now < jobs[i].arrivalTime /\ jobs[i].arrivalTime < now')]_vars

\* C13 witness: a job with work left was stopped at the arrival of the job of
\* the next slice.
StopAtArrivalWitness ==
    /\ Scheduling
    /\ \E k \in SliceIds :
          /\ k + 1 \in SliceIds
          /\ slices[k].end = jobs[SliceJob(k + 1)].arrivalTime
          /\ slices[k + 1].start = slices[k].end
          /\ \E m \in SliceIds : m > k + 1 /\ SameIdentity(slices[m], slices[k])

\* the (taskIndex, jobId) identities that appear in the slice list
SliceIdentities == {<<slices[k].taskIndex, slices[k].jobId>> : k \in SliceIds}

\* the adjacent slice pairs whose identities differ
IdentityChanges == {k \in SliceIds : k > 0 /\ ~SameIdentity(slices[k], slices[k - 1])}

\* C14 as stated: the preemption count is the number of slices minus the
\* number of distinct identities, and is the number of identity changes.
PreemptionsAreSlicesMinusIdentities ==
    pc = "end" =>
        /\ analysis.preemptions = g_numSlices - Cardinality(SliceIdentities)
        /\ analysis.preemptions >= 0
        /\ analysis.preemptions = Cardinality(IdentityChanges)

\* C14 amended: the preemption count is the number of adjacent slice pairs
\* whose identities differ, and is at least the number of slices minus the
\* number of distinct identities, which is at least 0.
PreemptionsAreIdentityChanges ==
    pc = "end" =>
        /\ analysis.preemptions = Cardinality(IdentityChanges)
        /\ analysis.preemptions >= g_numSlices - Cardinality(SliceIdentities)
        /\ g_numSlices - Cardinality(SliceIdentities) >= 0

\* C14 witness: an analysed schedule in which a job was resumed and two jobs
\* of one task ran one after the other.
PreemptionsWitness ==
    /\ pc = "end"
    /\ Cardinality(SliceIdentities) < g_numSlices
    /\ \E k \in SliceIds : /\ k > 0
                           /\ slices[k].taskIndex = slices[k - 1].taskIndex
                           /\ slices[k].jobId # slices[k - 1].jobId

\* the condition under which the loop of scheduleEDFVD is left
LoopLeft ==
    \/ now >= hyperPeriod
    \/ /\ ActiveIndices(jobs, g_numJobs, now) = {}
       /\ \A i \in JobIds : ~(/\ ~jobs[i].finished
                              /\ jobs[i].arrivalTime > now
                              /\ jobs[i].arrivalTime < hyperPeriod)

\* C15: scheduleEDFVD terminates: every iteration after which the loop goes
\* on strictly increases now, the loop is eventually left, and when it is
\* left either now >= H or there is no active job and no unfinished job
\* arriving in (now, H).
SchedulerTerminates ==
    /\ [][pc = "sched" /\ pc' = "sched" => now' > now]_vars
    /\ [](pc \in {"write", "end"} => LoopLeft)
    /\ [](pc = "sched" => <>(pc = "write"))

\* C15 witness: the loop was left before H, after several iterations, with
\* nothing active and nothing left to arrive.
TerminatesWitness ==
    /\ pc = "write"
    /\ now < hyperPeriod
    /\ g_numSlices >= 2

\* C16: the second run of the simulation on the same files, in the same
\* process, ends with the slice list and the preemption, average-wait and
\* average-response values of the first run.
RerunIdentical ==
    (run = 2 /\ pc \in {"notasks", "done", "end"}) =>
        /\ [i \in 0 .. g_numSlices - 1 |-> slices[i]] = firstRun.slices
        /\ analysis = firstRun.analysis

\* C16 witness: a second run has ended whose schedule has several slices and
\* in which qsort was handed jobs with equal virtual deadlines.
RerunWitness ==
    /\ run = 2
    /\ pc = "end"
    /\ firstRun.ended
    /\ g_numSlices >= 2
    /\ sortMemo # NoEntries

\* every task read is HI-criticality and their utilization is at most 1
HighOnly ==
    /\ g_numTasks > 0
    /\ \A i \in 0 .. g_numTasks - 1 : tasks[i].critLevel = CRIT_HIGH
    /\ RLeq(U_H, RInt(1))

\* C17 as stated: for a HI-only task set with U_HI <= 1 the scaling factor is
\* 1 and every job is scheduled by its real deadline, as under plain EDF.
HighOnlyIsPlainEDF ==
    (AfterParams /\ HighOnly) =>
        /\ x = RInt(1)
        /\ \A i \in JobIds :
              pc # "build" => jobs[i].virtualDeadline = RInt(jobs[i].absoluteDeadline)

RECURSIVE JobCountBefore(_)
\* the sum of jobCount over the tasks before t
JobCountBefore(t) ==
    IF t = 0 THEN 0 ELSE JobCountBefore(t - 1) + tasks[t - 1].jobCount

\* C18: buildJobsArray lists the jobs by task index, then job id, jobCount of
\* them for each task (none is skipped), and job (t, j) has as actual
\* execution time, and as remaining time until it is first dispatched, the
\* token at position (sum of jobCount of the tasks before t) + j.
JobsBuiltInOrder ==
    pc \in {"sched", "write", "end", "done"} =>
        /\ g_numJobs = JobCountBefore(g_numTasks)
        /\ \A t \in 0 .. g_numTasks - 1 : \A j \in 0 .. tasks[t].jobCount - 1 :
              LET i == JobCountBefore(t) + j
              IN  /\ jobs[i].taskIndex = t
                  /\ jobs[i].jobId = j
                  /\ jobs[i].actualExecTime = Token(i)
                  /\ jobs[i].startTime < 0 => jobs[i].remainingTime = Token(i)

\* C18 witness: buildJobsArray has just returned with at least two jobs of
\* each of two tasks, from a trace whose tokens are not all equal.
JobsBuiltWitness ==
    /\ pc = "sched"
    /\ g_numSlices = 0
    /\ now = 0
    /\ g_numTasks = 2
    /\ tasks[0].jobCount >= 2
    /\ tasks[1].jobCount >= 2
    /\ \E a, b \in DOMAIN execTimes : execTimes[a] # execTimes[b]
    /\ \A i \in JobIds : jobs[i].startTime < 0

\* the integer k nearest to the period pd (in ticks), halves going up:
\* k - 1/2 <= pd / One < k + 1/2
NearestInteger(pd) ==
    CHOOSE k \in 0 .. pd \div One + 1 :
        /\ 2 * k * One - One <= 2 * pd
        /\ 2 * pd < 2 * k * One + One

\* the rounded period, 1 when the nearest integer is not positive
Rounded(pd) == IF NearestInteger(pd) <= 0 THEN 1 ELSE NearestInteger(pd)

\* m is a multiple of the rounded period of every task
CommonMultiple(m) ==
    \A i \in 0 .. g_numTasks - 1 : m % Rounded(tasks[i].period) = 0

MalformedRecord == WellFormedPrefix(taskFile) < taskFile.count

\* C20 as stated: when a task record is malformed the run aborts: no
\* hyperperiod is computed, no job is built and nothing is scheduled.
MalformedFileAborts ==
    MalformedRecord =>
        /\ pc \notin {"params", "build", "sched", "write", "end", "done"}
        /\ hyperPeriod = 0
        /\ g_numJobs = 0
        /\ g_numSlices = 0

\* the number of tokens the job list needs: the sum of jobCount
TokensNeeded == JobCountBefore(g_numTasks)

\* C21 as stated: when one of the tokens the job list needs is missing, is
\* not a number, or is an execution time <= 0, nothing is scheduled and no
\* schedule is written.
InvalidTraceAborts ==
    (\E k \in 0 .. TokensNeeded - 1 : Token(k) <= 0) =>
        /\ pc \notin {"sched", "write", "end"}
        /\ ~analysis.written

\* C22 as stated: a run never schedules or writes a truncated job list, and
\* every slice counted in g_numSlices when the schedule is written has been
\* populated by the scheduler.
FullTableStopsRun ==
    /\ pc \in {"sched", "write", "end"} => g_numJobs = TokensNeeded
    /\ pc \in {"write", "end"} =>
          \A k \in SliceIds : /\ slices[k].start < slices[k].end
                              /\ \E i \in JobIds : SliceJob(k) = i

\* ------------------------------------------------- the end-to-end scenarios
\* exec_times.txt holding exactly the tokens of seq: the read after the last
\* token fails
TraceOf(seq) ==
    [k \in 0 .. Len(seq) |-> IF k < Len(seq) THEN seq[k + 1] ELSE BadToken]

\* tasks.txt holding the well-formed records of recs
FileOf(recs) ==
    [count |-> Len(recs), records |-> [i \in 0 .. Len(recs) - 1 |-> recs[i + 1]]]

\* T1 0 4 1 4 L / T2 0 6 2 6 L with trace 1 1 1 2 2
ScenarioA ==
    FileOf(<<TaskRecord(0, 4 * One, One, 4 * One, CRIT_LOW),
             TaskRecord(0, 6 * One, 2 * One, 6 * One, CRIT_LOW)>>)
TraceA == TraceOf(<<One, One, One, 2 * One, 2 * One>>)

\* H1 0 10 5 10 H / L1 0 20 4 20 L with trace 5 5 4
ScenarioB ==
    FileOf(<<TaskRecord(0, 10 * One, 5 * One, 10 * One, CRIT_HIGH),
             TaskRecord(0, 20 * One, 4 * One, 20 * One, CRIT_LOW)>>)
TraceB == TraceOf(<<5 * One, 5 * One, 4 * One>>)

\* L1 0 10 3 10 L / H1 2 10 3 10 H with trace 3 3
ScenarioC ==
    FileOf(<<TaskRecord(0, 10 * One, 3 * One, 10 * One, CRIT_LOW),
             TaskRecord(2 * One, 10 * One, 3 * One, 10 * One, CRIT_HIGH)>>)
TraceC == TraceOf(<<3 * One, 3 * One>>)

\* T1 5 10 2 2 L with trace 2
ScenarioD == FileOf(<<TaskRecord(5 * One, 10 * One, 2 * One, 2 * One, CRIT_LOW)>>)
TraceD == TraceOf(<<2 * One>>)

\* a trace whose first job runs for ten time units
TraceWhole == TraceOf(<<10 * One>>)

\* every scenario file is run against every scenario trace
InitScenarios ==
    InitFrom({ScenarioA, ScenarioB, ScenarioC, ScenarioD},
             {TraceA, TraceB, TraceC, TraceD, TraceWhole})

SpecScenarios == InitScenarios /\ [][Next]_vars

\* the run of tasks.txt = file and exec_times.txt = trace has ended
Ended(file, trace) == taskFile = file /\ execTimes = trace /\ pc = "end"

\* slices[0 .. g_numSlices-1] is exactly seq, each entry <<start, end, task, job>>
\* in time units
SlicesAre(seq) ==
    /\ g_numSlices = Len(seq)
    /\ \A k \in 1 .. Len(seq) :
          slices[k - 1] = [start |-> seq[k][1] * One, end |-> seq[k][2] * One,
                           taskIndex |-> seq[k][3], jobId |-> seq[k][4]]

\* the scheduling loop of the run of file and trace has been left normally
Scheduled(file, trace) == taskFile = file /\ execTimes = trace /\ pc \in {"write", "end"}

\* C23: Scenario B (H1 0 10 5 10 H, L1 0 20 4 20 L, trace 5 5 / 4) gives H = 20,
\* x = 0.625, the virtual deadline 6.25 for H1, exactly the slices H1#0 [0,5],
\* L1#0 [5,9], H1#1 [10,15] (the processor idles in [9,10] and [15,20]) and
\* Preemptions = 2.
ScenarioBSchedule ==
    /\ Scheduled(ScenarioB, TraceB) =>
          /\ hyperPeriod = 20 * One
          /\ x = RDiv(RInt(5), RInt(8))
          /\ tasks[0].virtualDeadline = RDiv(RInt(25 * One), RInt(4))
          /\ SlicesAre(<<<<0, 5, 0, 0>>, <<5, 9, 1, 0>>, <<10, 15, 0, 1>>>>)
    /\ Ended(ScenarioB, TraceB) => analysis.preemptions = 2

ScenarioBWitness ==
    /\ Ended(ScenarioB, TraceB)
    /\ analysis.written
    /\ now = 15 * One

\* C24 as stated: Scenario C (L1 0 10 3 10 L, H1 2 10 3 10 H, trace 3 / 3) gives
\* the slices L1 [0,2], H1 [2,5], L1 [5,6] and Preemptions = 2.
ScenarioCSchedule ==
    Ended(ScenarioC, TraceC) =>
       /\ SlicesAre(<<<<0, 2, 0, 0>>, <<2, 5, 1, 0>>, <<5, 6, 0, 0>>>>)
       /\ analysis.preemptions = 2

\* C25 as stated: Scenario D (one task of phase 5, period 10, wcet = deadline = 2,
\* actual execution time 2) moves now from 0 to 5 without opening a slice and
\* puts out exactly the slice [5,7].
ScenarioDSchedule ==
    (taskFile = ScenarioD /\ execTimes = TraceD /\ pc \in {"done", "end"}) =>
       /\ pc = "end"
       /\ SlicesAre(<<<<5, 7, 0, 0>>>>)

\* C26: Scenario A (T1 0 4 1 4 L, T2 0 6 2 6 L, trace 1 1 1 / 2 2) gives H = 12,
\* three jobs of T1, two of T2 and exactly the slices [0,1] T1#0, [1,3] T2#0,
\* [4,5] T1#1, [6,8] T2#1, [8,9] T1#2.
ScenarioASchedule ==
    Scheduled(ScenarioA, TraceA) =>
       /\ hyperPeriod = 12 * One
       /\ tasks[0].jobCount = 3
       /\ tasks[1].jobCount = 2
       /\ SlicesAre(<<<<0, 1, 0, 0>>, <<1, 3, 1, 0>>, <<4, 5, 0, 1>>,
                      <<6, 8, 1, 1>>, <<8, 9, 0, 2>>>>)

ScenarioAWitness ==
    /\ Scheduled(ScenarioA, TraceA)
    /\ pc = "write"
    /\ g_numSlices = 5

\* C27 as stated: in Scenario A Preemptions = 0 and the average response time
\* is (1+2+1+2+1)/5.
ScenarioAStatisticsStated ==
    Ended(ScenarioA, TraceA) =>
       /\ analysis.preemptions = 0
       /\ REq(analysis.avgResp, RDiv(RInt((1 + 2 + 1 + 2 + 1) * One), RInt(5)))

\* C27 amended: in Scenario A Preemptions = 4 (the five slices have five
\* different identities) and the average response time is (1+3+1+2+1)/5, the
\* first job of T2 finishing at 3.
ScenarioAStatistics ==
    Ended(ScenarioA, TraceA) =>
       /\ analysis.preemptions = 4
       /\ REq(analysis.avgResp, RDiv(RInt((1 + 3 + 1 + 2 + 1) * One), RInt(5)))

ScenarioAStatisticsWitness ==
    /\ Ended(ScenarioA, TraceA)
    /\ analysis.written
    /\ jobs[3].finishTime = 3 * One

\* vRunOfflineEDFVD has returned
RunOver == pc \in {"notasks", "done", "end"}

\* C28 as stated: with an empty task set (N = 0) the run succeeds, the schedule
\* has no slice and the analysis is written with Preemptions = 0, Avg Wait = 0
\* and Avg Response = 0; whenever no job finished, the analysis written holds
\* zero for all three.
EmptyTaskSetSucceeds ==
    /\ (taskFile.count = 0 /\ RunOver) =>
          /\ g_numSlices = 0
          /\ analysis.written
          /\ analysis.preemptions = 0
          /\ REq(analysis.avgWait, RInt(0))
          /\ REq(analysis.avgResp, RInt(0))
    /\ (analysis.written /\ FinishedUpTo(jobs, g_numJobs) = 0) =>
          /\ analysis.preemptions = 0
          /\ REq(analysis.avgWait, RInt(0))
          /\ REq(analysis.avgResp, RInt(0))

\* some job arrives at t
ArrivalAt(t) == \E i \in JobIds : jobs[i].arrivalTime = t

\* some job was running up to t and finished there
CompletionAt(t) == \E i \in JobIds : jobs[i].finished /\ jobs[i].finishTime = t

\* C30: every value that now takes during scheduleEDFVD is 0, the arrival time
\* of some job, a completion instant of the running job, or H.
NowIsDecisionPoint ==
    Scheduling =>
       \/ now = 0
       \/ now = hyperPeriod
       \/ ArrivalAt(now)
       \/ CompletionAt(now)

\* now stands at a completion that is neither 0, H nor an arrival
NowAtCompletionWitness ==
    /\ pc = "sched"
    /\ now # 0
    /\ now # hyperPeriod
    /\ ~ArrivalAt(now)
    /\ CompletionAt(now)

\* ------------------------------------------------- the runtime EDF demo
\* The demo is a program of its own: the variables of the offline simulator
\* stay as they are while it runs.
offlineVars ==
    <<pc, taskFile, g_numTasks, tasks, execTimes, hyperPeriod, U_H, U_L, x,
      g_numJobs, jobs, g_numSlices, slices, now, lastJobIndex, analysis,
      sortMemo, run, firstRun, tableSize>>

OfflineAtRest ==
    /\ pc = "off"
    /\ taskFile = FileOf(<<>>)
    /\ execTimes = TraceOf(<<>>)
    /\ tableSize = DeclaredSizes
    /\ g_numTasks = 0
    /\ tasks = NoEntries
    /\ analysis = NoAnalysis
    /\ sortMemo = NoEntries
    /\ run = 1
    /\ firstRun = NoFirstRun
    /\ hyperPeriod = 0
    /\ U_H = RInt(0)
    /\ U_L = RInt(0)
    /\ x = RInt(1)
    /\ g_numJobs = 0
    /\ jobs = NoEntries
    /\ g_numSlices = 0
    /\ slices = NoEntries
    /\ now = 0
    /\ lastJobIndex = -1

\* the largest number of vUpdateTaskDeadline calls followed for one task
MaxUpdates == 2

configTICK_RATE_HZ == 1000
configMAX_PRIORITIES == 7
TASK_PRIORITY == 1

\* a number below 2^31 as a TickType_t
TickFrom(v) == TickOf(v \div HalfRange, v % HalfRange)

pdMS_TO_TICKS(ms) == TickFrom((ms * configTICK_RATE_HZ) \div 1000)

\* TEMP_TASK_PERIOD_MS, PRESSURE_TASK_PERIOD_MS, HEIGHT_TASK_PERIOD_MS by index
TASK_PERIOD_MS == [i \in EdfIndices |-> IF i = 0 THEN 500 ELSE IF i = 1 THEN 1000 ELSE 2000]

\* a tick count 1500 ticks before the counter wraps
TickNearWrap == TickOf(HalfRange - 1, HalfRange - 1500)

\* The tick count that vRegisterTaskEDF reads: 0 when main registers before
\* the kernel starts, and a count near the top of TickType_t, which is what a
\* registration late in the life of the counter reads.
InitEDF ==
    /\ OfflineAtRest
    /\ \E tick \in {TickZero, TickNearWrap} : EDFAtStart(tick)

\* the table after vRegisterTaskEDF(handle, period, index) at tick count tick
RegisterTaskEDF(table, handle, period, index, tick) ==
    IF index < NUM_EDF_TASKS
    THEN [table EXCEPT ![index] = [xHandle |-> handle, xPeriod |-> period,
                                   xNextDeadline |-> TickAdd(tick, period)]]
    ELSE table

\* main: the three xTaskCreate calls
MainCreate ==
    /\ edfPc.main = "create"
    /\ uxPriority' = [i \in EdfIndices |-> TASK_PRIORITY]
    /\ edfPc' = [edfPc EXCEPT !.main = "register"]
    /\ UNCHANGED <<xTasksEDF, xTickCount, edfLocal, edfCalls, offlineVars>>

\* the index main registers next: 0, 1, 2 in turn
NextRegistered == Cardinality({i \in EdfIndices : edfCalls[i].registered})

\* main: one call of vRegisterTaskEDF
MainRegister ==
    /\ edfPc.main = "register"
    /\ LET index == NextRegistered
           period == pdMS_TO_TICKS(TASK_PERIOD_MS[index])
       IN  /\ xTasksEDF' = RegisterTaskEDF(xTasksEDF, index, period, index, xTickCount)
           /\ edfCalls' = [edfCalls EXCEPT ![index] =
                              [registered |-> TRUE, t0 |-> xTickCount,
                               p |-> period, k |-> 0]]
           /\ edfPc' = [edfPc EXCEPT !.main =
                           IF index + 1 < NUM_EDF_TASKS THEN "register" ELSE "start"]
    /\ UNCHANGED <<uxPriority, xTickCount, edfLocal, offlineVars>>

\* the locals of vScheduleEDF at the top of its for(;;) loop
ScanStart(local) ==
    [local EXCEPT !.i = 0, !.earliestDeadline = TickMax, !.earliestIndex = 0 - 1]

\* main: vStartEDFScheduler and vTaskStartScheduler; from here on the three
\* tasks and the scheduler task run interleaved
MainStart ==
    /\ edfPc.main = "start"
    /\ edfPc' = [main |-> "kernel", sched |-> "scan",
                 task |-> [i \in EdfIndices |-> "job"]]
    /\ edfLocal' = ScanStart(edfLocal)
    /\ UNCHANGED <<xTasksEDF, uxPriority, xTickCount, edfCalls, offlineVars>>

\* task index: the read of xNextDeadline and xPeriod and the addition of
\* xNextDeadline += xPeriod
UpdateLoad(index) ==
    /\ edfPc.task[index] = "job"
    /\ edfCalls[index].k < MaxUpdates
    /\ index < NUM_EDF_TASKS
    /\ edfLocal' = [edfLocal EXCEPT !.sum[index] =
                       TickAdd(xTasksEDF[index].xNextDeadline, xTasksEDF[index].xPeriod)]
    /\ edfPc' = [edfPc EXCEPT !.task[index] = "store"]
    /\ UNCHANGED <<xTasksEDF, uxPriority, xTickCount, edfCalls, offlineVars>>

\* task index: the write of xNextDeadline += xPeriod, then vTaskDelay
UpdateStore(index) ==
    /\ edfPc.task[index] = "store"
    /\ xTasksEDF' = [xTasksEDF EXCEPT ![index].xNextDeadline = edfLocal.sum[index]]
    /\ edfCalls' = [edfCalls EXCEPT ![index].k = @ + 1]
    /\ edfPc' = [edfPc EXCEPT !.task[index] = "delay"]
    /\ UNCHANGED <<uxPriority, xTickCount, edfLocal, offlineVars>>

\* task index: vTaskDelay(xDelay) returns and the loop starts over
TaskWake(index) ==
    /\ edfPc.task[index] = "delay"
    /\ edfPc' = [edfPc EXCEPT !.task[index] = "job"]
    /\ UNCHANGED <<xTasksEDF, uxPriority, xTickCount, edfLocal, edfCalls, offlineVars>>

\* vScheduleEDF: one iteration of the loop that looks for the earliest deadline
SchedScan ==
    /\ edfPc.sched = "scan"
    /\ LET i == edfLocal.i
       IN  IF i < NUM_EDF_TASKS
           THEN /\ edfLocal' =
                      IF TickLt(xTasksEDF[i].xNextDeadline, edfLocal.earliestDeadline)
                      THEN [edfLocal EXCEPT !.earliestDeadline = xTasksEDF[i].xNextDeadline,
                                            !.earliestIndex = i, !.i = i + 1,
                                            !.scanned[i] = xTasksEDF[i].xNextDeadline]
                      ELSE [edfLocal EXCEPT !.i = i + 1,
                                            !.scanned[i] = xTasksEDF[i].xNextDeadline]
                /\ UNCHANGED edfPc
           ELSE /\ edfLocal' = [edfLocal EXCEPT !.i = 0]
                /\ edfPc' = [edfPc EXCEPT !.sched =
                                IF edfLocal.earliestIndex # 0 - 1 THEN "set" ELSE "delay"]
    /\ UNCHANGED <<xTasksEDF, uxPriority, xTickCount, edfCalls, offlineVars>>

\* vScheduleEDF: one iteration of the loop that sets the priorities
SchedSet ==
    /\ edfPc.sched = "set"
    /\ LET i == edfLocal.i
       IN  IF i < NUM_EDF_TASKS
           THEN /\ uxPriority' =
                      [uxPriority EXCEPT ![xTasksEDF[i].xHandle] =
                          IF i = edfLocal.earliestIndex
                          THEN configMAX_PRIORITIES - 1 ELSE 1]
                /\ edfLocal' = [edfLocal EXCEPT !.i = i + 1]
                /\ UNCHANGED edfPc
           ELSE /\ edfPc' = [edfPc EXCEPT !.sched = "delay"]
                /\ UNCHANGED <<uxPriority, edfLocal>>
    /\ UNCHANGED <<xTasksEDF, xTickCount, edfCalls, offlineVars>>

\* vScheduleEDF: vTaskDelay(xSchedulerDelay) returns and the loop starts over
SchedWake ==
    /\ edfPc.sched = "delay"
    /\ edfPc' = [edfPc EXCEPT !.sched = "scan"]
    /\ edfLocal' = ScanStart(edfLocal)
    /\ UNCHANGED <<xTasksEDF, uxPriority, xTickCount, edfCalls, offlineVars>>

NextEDF ==
    \/ MainCreate
    \/ MainRegister
    \/ MainStart
    \/ \E index \in EdfIndices : UpdateLoad(index)
    \/ \E index \in EdfIndices : UpdateStore(index)
    \/ \E index \in EdfIndices : TaskWake(index)
    \/ SchedScan
    \/ SchedSet
    \/ SchedWake

SpecEDF == InitEDF /\ [][NextEDF]_vars

\* t + n * p in TickType_t, for n * p below 2^31
TickPlusTimes(t, n, p) ==
    LET l == t.lo + n * p.lo
        h == t.hi + n * p.hi + l \div HalfRange
    IN  TickOf(h % HalfRange, l % HalfRange)

\* entry index is what its registration and its k updates make it
EntryFollowsCalls(index) ==
    edfCalls[index].registered =>
       /\ xTasksEDF[index].xPeriod = edfCalls[index].p
       /\ xTasksEDF[index].xNextDeadline =
             TickPlusTimes(edfCalls[index].t0, edfCalls[index].k + 1, edfCalls[index].p)

\* a step in which a call for index completes leaves the other entries alone
OthersUntouched ==
    \A index \in EdfIndices :
       edfCalls'[index] # edfCalls[index] =>
          \A other \in EdfIndices \ {index} : xTasksEDF'[other] = xTasksEDF[other]

\* C29: after vRegisterTaskEDF(h, p, i) at tick t0 and k calls of
\* vUpdateTaskDeadline(i), under any interleaving of the three tasks and the
\* scheduler task, entry i holds period p and xNextDeadline = t0 + (k+1) * p
\* modulo 2^32, and a call for index i never changes another entry.
DeadlineTableFollowsCalls ==
    /\ [](\A index \in EdfIndices : EntryFollowsCalls(index))
    /\ [][OthersUntouched]_vars

\* entry index has wrapped after MaxUpdates updates while another task is in
\* the middle of its own update
DeadlineTableWitness ==
    \E index \in EdfIndices :
       /\ edfCalls[index].k = MaxUpdates
       /\ TickLt(xTasksEDF[index].xNextDeadline, edfCalls[index].t0)
       /\ \E other \in EdfIndices \ {index} : edfPc.task[other] = "store"

\* ------------------------------------------- what one loop iteration changes
\* the fields of a job that no dispatch writes
FixedFields(job) ==
    <<job.taskIndex, job.jobId, job.arrivalTime, job.wcet, job.actualExecTime,
      job.absoluteDeadline, job.virtualDeadline>>

\* this step is an iteration of the loop of scheduleEDFVD
LoopIteration == pc = "sched" /\ now < hyperPeriod /\ pc' \in {"sched", "write"}

\* this step dispatches a job (which is then lastJobIndex)
DispatchIteration == LoopIteration /\ ActiveIndices(jobs, g_numJobs, now) # {}

\* this step finds no active job
IdleIteration == LoopIteration /\ ActiveIndices(jobs, g_numJobs, now) = {}

\* C31: an iteration that dispatches job j* changes only j*'s remaining,
\* start_time, finish_time and finished fields and only the last slice
\* (extended, or one new slice appended); every other job and every earlier
\* slice is unchanged, so a job that was active and not finished stays active;
\* an idle-skip iteration changes only now.
IterationFrame ==
    /\ DispatchIteration =>
          /\ \A i \in JobIds :
                /\ FixedFields(jobs'[i]) = FixedFields(jobs[i])
                /\ i # lastJobIndex' => jobs'[i] = jobs[i]
          /\ g_numJobs' = g_numJobs
          /\ g_numSlices' \in {g_numSlices, g_numSlices + 1}
          /\ \A k \in SliceIds :
                IF k = g_numSlices - 1 /\ g_numSlices' = g_numSlices
                THEN [slices'[k] EXCEPT !.end = 0] = [slices[k] EXCEPT !.end = 0]
                ELSE slices'[k] = slices[k]
          /\ \A i \in JobIds :
                (IsActive(jobs[i], now) /\ ~jobs'[i].finished) => IsActive(jobs'[i], now')
    /\ IdleIteration =>
          /\ jobs' = jobs
          /\ slices' = slices
          /\ g_numSlices' = g_numSlices
          /\ lastJobIndex' = lastJobIndex

IterationFrameHolds == [][IterationFrame]_vars

\* a job that was dispatched and then preempted waits with the remaining time
\* it was left with, while another job is the last one dispatched
PreemptedJobWaits ==
    /\ pc = "sched"
    /\ \E i \in JobIds :
          /\ i # lastJobIndex
          /\ jobs[i].startTime >= 0
          /\ ~jobs[i].finished
          /\ 0 < jobs[i].remainingTime
          /\ jobs[i].remainingTime < jobs[i].actualExecTime

\* remainingTime of every job lies between 0 and its actualExecTime
RemainingInRange ==
    Scheduling => \A i \in JobIds :
                     /\ 0 <= jobs[i].remainingTime
                     /\ jobs[i].remainingTime <= jobs[i].actualExecTime

\* a dispatch takes delta = now' - now from the chosen job, 0 < delta <= remaining,
\* and no step raises a remaining time
RemainingDecreases ==
    LoopIteration =>
       \A i \in JobIds :
          /\ jobs'[i].remainingTime <= jobs[i].remainingTime
          /\ jobs'[i].remainingTime # jobs[i].remainingTime =>
                /\ jobs[i].remainingTime - jobs'[i].remainingTime = now' - now
                /\ 0 < now' - now
                /\ now' - now <= jobs[i].remainingTime

\* C32 as stated: for every job remaining starts equal to actual_exec, never
\* increases and is never negative; each dispatch subtracts delta = t_next - now
\* with 0 < delta <= remaining.
RemainingNeverNegative == []RemainingInRange /\ [][RemainingDecreases]_vars

\* a job that becomes finished gets finishTime = the new now, and a finished
\* job stays finished with the same finishTime
FinishTimeSetOnce ==
    Scheduling =>
       \A i \in JobIds :
          /\ (jobs'[i].finished /\ ~jobs[i].finished) => jobs'[i].finishTime = now'
          /\ jobs[i].finished =>
                jobs'[i].finished /\ jobs'[i].finishTime = jobs[i].finishTime

\* C33 as stated: in every state from job creation to the end of scheduling,
\* finished is true if and only if remaining <= 1e-9; the finish time is set
\* to now when the job becomes finished and never changes afterwards.
FinishedIffNothingRemains ==
    /\ [](Scheduling => \A i \in JobIds :
                           jobs[i].finished <=> jobs[i].remainingTime <= EPS)
    /\ [][FinishTimeSetOnce]_vars

\* C33 amended: a finished job has remaining <= 1e-9, and an unfinished job
\* with remaining <= 1e-9 has never been dispatched (its execution time was
\* that small when it was created); the finish time is set to now when the
\* job becomes finished and never changes afterwards.
FinishedOnlyByDispatch ==
    /\ [](Scheduling => \A i \in JobIds :
             /\ jobs[i].finished => jobs[i].remainingTime <= EPS
             /\ (~jobs[i].finished /\ jobs[i].remainingTime <= EPS) =>
                   /\ jobs[i].startTime = -1
                   /\ jobs[i].remainingTime = jobs[i].actualExecTime)
    /\ [][FinishTimeSetOnce]_vars

\* a job has just finished at now while another, created with an execution
\* time of 1e-9, is still waiting for its first dispatch
FinishedByDispatchWitness ==
    /\ pc = "sched"
    /\ \E i \in JobIds : jobs[i].finished /\ jobs[i].finishTime = now
    /\ \E i \in JobIds : /\ ~jobs[i].finished
                         /\ jobs[i].actualExecTime = EPS
                         /\ jobs[i].startTime = -1

\* the slices that bear the identity of job i
SlicesOf(i) ==
    {k \in SliceIds : /\ slices[k].taskIndex = jobs[i].taskIndex
                      /\ slices[k].jobId = jobs[i].jobId}

\* startTime is written once, with the value of now at the first dispatch
StartTimeSetOnce ==
    Scheduling =>
       \A i \in JobIds :
          /\ (jobs[i].startTime = -1 /\ jobs'[i].startTime # -1) =>
                /\ jobs'[i].startTime = now
                /\ lastJobIndex' = i
          /\ jobs[i].startTime # -1 => jobs'[i].startTime = jobs[i].startTime

\* startTime is -1 exactly as long as no slice bears the job's identity, then
\* the start of the earliest such slice; a finished job has
\* arrival <= startTime < finishTime
StartTimeIsFirstSlice ==
    Scheduling =>
       \A i \in JobIds :
          /\ jobs[i].startTime = -1 <=> SlicesOf(i) = {}
          /\ SlicesOf(i) # {} => jobs[i].startTime = slices[SetMin(SlicesOf(i))].start
          /\ jobs[i].finished =>
                /\ jobs[i].arrivalTime <= jobs[i].startTime
                /\ jobs[i].startTime < jobs[i].finishTime

\* C34: a job's start_time is -1 until its first dispatch, is set at that
\* dispatch to now and never changes afterwards; for every finished job
\* arrival <= start_time < finish_time, and start_time is the start of the
\* earliest slice bearing the job's identity.
StartTimeIsFirstDispatch == []StartTimeIsFirstSlice /\ [][StartTimeSetOnce]_vars

\* a finished job that waited after its arrival and ran in two slices
StartTimeWitness ==
    /\ Scheduling
    /\ \E i \in JobIds :
          /\ jobs[i].finished
          /\ jobs[i].arrivalTime < jobs[i].startTime
          /\ Cardinality(SlicesOf(i)) > 1

\* job i needs one time unit and a residue below the tolerance, and has been
\* run for exactly one time unit
RanForOne(i) ==
    /\ jobs[i].actualExecTime = One + EPS
    /\ jobs[i].actualExecTime - jobs[i].remainingTime = One

\* a finished job is not dispatched and gets no further slice
FinishedJobRests ==
    Scheduling =>
       \A i \in JobIds :
          jobs[i].finished =>
             /\ jobs'[i] = jobs[i]
             /\ (pc' = "sched" /\ lastJobIndex' # lastJobIndex) => lastJobIndex' # i
             /\ \A k \in 0 .. g_numSlices' - 1 :
                   (slices'[k].taskIndex = jobs[i].taskIndex
                       /\ slices'[k].jobId = jobs[i].jobId)
                   => (k \in SliceIds /\ slices'[k] = slices[k])

\* C35: Scenario F: a job with actual_exec = 1.0 + 1e-10 that has been run for
\* exactly 1.0 at a decision point is marked finished with finish_time equal to
\* that instant, is never dispatched again, and no further slice bears its
\* identity.
ResidueBelowToleranceFinishes ==
    /\ [](Scheduling => \A i \in JobIds :
             RanForOne(i) =>
                /\ jobs[i].finished
                /\ jobs[i].finishTime = slices[SetMax(SlicesOf(i))].end)
    /\ [][FinishedJobRests]_vars

\* such a job was stopped by an arrival and finished there, and another job
\* has been dispatched since
ResidueWitness ==
    /\ pc = "sched"
    /\ \E i \in JobIds : /\ RanForOne(i)
                         /\ jobs[i].finished
                         /\ lastJobIndex # i
                         /\ jobs[i].finishTime < now

\* the active set of the current state
ActiveNow == ActiveIndices(jobs, g_numJobs, now)

\* job i is active and no active job has an earlier virtual deadline
EarliestActive(i) ==
    /\ i \in ActiveNow
    /\ \A k \in ActiveNow : ~RLt(jobs[k].virtualDeadline, jobs[i].virtualDeadline)

\* the scan of src/edfvd/edfvdsim.c that matches tmpArr[0] (a copy of jb[f])
\* back to the job table: the first active index equal in taskIndex and
\* virtualDeadline; -1 when nothing matches
MatchByTaskAndDeadline(jb, active, f) ==
    LET same == {i \in active :
                    /\ jb[i].taskIndex = jb[f].taskIndex
                    /\ REq(jb[i].virtualDeadline, jb[f].virtualDeadline)}
    IN  IF same = {} THEN -1 ELSE SetMin(same)

\* with several active jobs, whatever qsort puts first is matched back to an
\* active job of least virtual deadline, by either implementation
RematchFindsEarliest ==
    (pc = "sched" /\ now < hyperPeriod /\ Cardinality(ActiveNow) > 1) =>
       \A f \in SortChoices(sortMemo, jobs, ActiveNow) :
          /\ EarliestActive(MatchChosen(jobs, ActiveNow, f))
          /\ EarliestActive(MatchByTaskAndDeadline(jobs, ActiveNow, f))

\* an iteration with several active jobs dispatches one of least virtual
\* deadline and stays in the loop
MultiActiveDispatches ==
    (DispatchIteration /\ Cardinality(ActiveNow) > 1) =>
       /\ pc' = "sched"
       /\ EarliestActive(lastJobIndex')
       /\ jobs'[lastJobIndex'] # jobs[lastJobIndex']

\* C36: once inputs are accepted the engine raises no error: in the
\* multi-active branch the match of the sorted minimum back to the job table
\* always succeeds, and the job matched is an active job of minimum virtual
\* deadline.
RematchAlwaysSucceeds == []RematchFindsEarliest /\ [][MultiActiveDispatches]_vars

\* two active jobs tie on the least virtual deadline
RematchWitness ==
    /\ pc = "sched"
    /\ now < hyperPeriod
    /\ \E i \in ActiveNow : \E k \in ActiveNow \ {i} :
          /\ EarliestActive(i)
          /\ REq(jobs[i].virtualDeadline, jobs[k].virtualDeadline)

\* C37: adjacent slices never share a (taskIndex, jobId) identity, so the
\* preemption count that analyzeSchedule reports is max(0, number of slices - 1):
\* switches after a completion or across an idle gap are counted too.
PreemptionsAreSlicesMinusOne ==
    /\ Scheduling =>
          \A k \in SliceIds \ {0} :
             \/ slices[k].taskIndex # slices[k - 1].taskIndex
             \/ slices[k].jobId # slices[k - 1].jobId
    /\ analysis.written =>
          analysis.preemptions = IF g_numSlices > 1 THEN g_numSlices - 1 ELSE 0

\* the analysis of a schedule in which one switch follows an idle gap and
\* another the completion of the job before
SlicesMinusOneWitness ==
    /\ analysis.written
    /\ g_numSlices > 2
    /\ \E k \in SliceIds \ {0} : slices[k - 1].end < slices[k].start
    /\ \E k \in SliceIds \ {0} :
          /\ slices[k - 1].end = slices[k].start
          /\ \E i \in JobIds : /\ jobs[i].finishTime = slices[k].start
                               /\ jobs[i].taskIndex = slices[k - 1].taskIndex
                               /\ jobs[i].jobId = slices[k - 1].jobId

\* now moves on without any job being billed only when no job is active
IdleOnlyWhenNothingActive ==
    (pc = "sched" /\ now' # now /\ jobs' = jobs) => ActiveNow = {}

\* the loop was left before the hyperperiod: all jobs of positive execution
\* time are finished
EarlyExitAllDone ==
    (pc \in {"write", "end"} /\ now < hyperPeriod) =>
       \A i \in JobIds : jobs[i].actualExecTime > 0 => jobs[i].finished

\* a job left unfinished when the loop is left: the hyperperiod was reached
UnfinishedOnlyAtHyperPeriod ==
    (pc \in {"write", "end"} /\ \E i \in JobIds : ~jobs[i].finished) => now >= hyperPeriod

\* C38 as stated: the engine is work-conserving: now advances without a job
\* being billed only when no arrived, unfinished job has remaining > 0; if the
\* loop is left with now < H every job with positive actual_exec is finished,
\* and any job left unfinished at exit implies now >= H.
WorkConserving ==
    /\ [][IdleOnlyWhenNothingActive]_vars
    /\ []EarlyExitAllDone
    /\ []UnfinishedOnlyAtHyperPeriod

\* ------------------------------------- the scheduler of src/edfvd/edfvdsim.c
\* what scheduleEDFVD works on: the job table, the slices counted so far, the
\* clock, the job dispatched last, and whether the loop is still running
EngineState ==
    [jobs |-> [i \in JobIds |-> jobs[i]],
     slices |-> [k \in SliceIds |-> slices[k]],
     numSlices |-> g_numSlices,
     now |-> now,
     last |-> lastJobIndex,
     running |-> pc = "sched"]

\* One pass of the while loop of scheduleEDFVD in edfvdsim.c from the current
\* state (currentTime = now, lastRunningJobIndex = lastJobIndex), f being the
\* job whose copy qsort puts first when several jobs are active.
EdfvdsimStep(f) ==
    LET active == ActiveIndices(jobs, g_numJobs, now)
        nextArrival == NextArrival(jobs, g_numJobs, now, hyperPeriod)
        stop == [EngineState EXCEPT !.running = FALSE]
    IN  IF ~(now < hyperPeriod) THEN stop
        ELSE IF active = {}
        THEN IF nextArrival > now /\ nextArrival < hyperPeriod
             THEN [EngineState EXCEPT !.now = nextArrival]
             ELSE stop
        ELSE LET chosenIndex == IF Cardinality(active) > 1
                                THEN MatchByTaskAndDeadline(jobs, active, f)
                                ELSE SetMin(active)
             IN  IF chosenIndex = -1 THEN stop
                 ELSE LET job == jobs[chosenIndex]
                          nextCompletion == now + job.remainingTime
                          nextDecision == IF nextArrival < nextCompletion
                                          THEN nextArrival ELSE nextCompletion
                          switched == chosenIndex # lastJobIndex
                          count == IF switched THEN g_numSlices + 1 ELSE g_numSlices
                          rem == job.remainingTime - (nextDecision - now)
                          done == rem <= EPS
                      IN  IF switched /\ count >= tableSize.slices
                          THEN [stop EXCEPT
                                  !.numSlices = count,
                                  !.slices = [k \in 0 .. count - 1 |->
                                                IF k \in DOMAIN slices
                                                THEN slices[k] ELSE ZeroSlice]]
                          ELSE [jobs |-> [i \in JobIds |->
                                   IF i # chosenIndex THEN jobs[i]
                                   ELSE [job EXCEPT
                                           !.startTime = IF switched /\ @ < 0 THEN now ELSE @,
                                           !.remainingTime = rem,
                                           !.finished = IF done THEN TRUE ELSE @,
                                           !.finishTime = IF done THEN nextDecision ELSE @]],
                                slices |-> [k \in 0 .. count - 1 |->
                                   IF switched /\ k = count - 1
                                   THEN [start |-> now, end |-> nextDecision,
                                         taskIndex |-> job.taskIndex, jobId |-> job.jobId]
                                   ELSE IF k = count - 1
                                   THEN [slices[k] EXCEPT !.end = nextDecision]
                                   ELSE slices[k]],
                                numSlices |-> count,
                                now |-> nextDecision,
                                last |-> chosenIndex,
                                running |-> TRUE]

\* what qsort may put first in the current state (only looked at when several
\* jobs are active)
FirstSorted ==
    IF Cardinality(ActiveNow) > 1 THEN SortChoices(sortMemo, jobs, ActiveNow) ELSE {0 - 1}

\* a step of the loop of sim_offline_edfvd.c leaves what the pass of
\* edfvdsim.c leaves, qsort giving both the same first element
SamePass == pc = "sched" => \E f \in FirstSorted : EngineState' = EdfvdsimStep(f)

\* both match the first sorted element back to the same job
SameMatch ==
    (pc = "sched" /\ now < hyperPeriod /\ Cardinality(ActiveNow) > 1) =>
       \A f \in FirstSorted :
          MatchByTaskAndDeadline(jobs, ActiveNow, f) = MatchChosen(jobs, ActiveNow, f)

\* C39 as stated: the two scheduler implementations are equivalent: run on the
\* same job list and hyperperiod they produce the same slice sequence and the
\* same start_time, finish_time, remaining and finished values for every job
\* after every iteration.
SchedulersEquivalent == []SameMatch /\ [][SamePass]_vars

\* ------------------------------------------------ vScheduleEDF: priorities
\* the order of TickType_t values as unsigned numbers: the high halves
\* decide, and the low halves when those are equal
Earlier(a, b) == IF a.hi = b.hi THEN a.lo < b.lo ELSE a.hi < b.hi

\* the pass of vScheduleEDF is over: its priority loop has run and the task
\* is in vTaskDelay
PassOver == edfPc.sched = "delay"

\* index holds the smallest of the deadlines the pass read, and is the lowest
\* such index
EarliestScanned(index) ==
    /\ \A other \in EdfIndices :
          ~Earlier(edfLocal.scanned[other], edfLocal.scanned[index])
    /\ \A other \in 0 .. index - 1 :
          Earlier(edfLocal.scanned[index], edfLocal.scanned[other])

=============================================================================
